---- MODULE Spec2Model ----
(***************************************************************************)
(* Multi-pass window-deformation PIV engine of openpiv-xl.                 *)
(*                                                                         *)
(* The orchestrator `multipass` exists twice: the whole-frame variant      *)
(* (src/openpiv/windef.py) and the padded/tiled variant                    *)
(* (src/openpiv/windef_gpu.py).  settings.impl selects which of the two    *)
(* bodies a run executes; every action below is one statement group of     *)
(* `multipass` or of the `multipass_img_deform` call it makes.             *)
(*                                                                         *)
(* Fields (x, y, u, v, flags, masks) are 2-D arrays: sequences of rows.    *)
(* Displacements are integers counted in units of 1 / Unit pixel, NaN is a  *)
(* value no arithmetic reaches.  A frame is known by the image it was made *)
(* from and the displacement fields it has been deformed by.               *)
(* The correlation engine, validation, the outlier filter, the             *)
(* smoother and the spline are collaborators outside src/: their results   *)
(* are inputs drawn with \E, or operators stated next to their call.  The  *)
(* spline is scipy's RectBivariateSpline: it raises for a degree outside   *)
(* 1..5 or with no more old centres than the degree on an axis, and at     *)
(* degree 1 it is the bilinear interpolant, held at its edge value outside *)
(* the old grid.  Higher degrees are in the model where they raise.        *)
(*                                                                         *)
(* Spec is one run of multipass.  SpecCaller puts the caller around it     *)
(* (pair after pair with one settings object).  SpecPad, SpecPrepare and   *)
(* SpecDeform take the grid padding, prepare_images and deform_windows on  *)
(* their own, over all small arguments.                                    *)
(***************************************************************************)
EXTENDS Integers, Sequences, FiniteSets, TLC

VARIABLES
    settings,      \* the PIVSettings object handed to multipass
    pc,            \* position of the run inside multipass
    err,           \* the exception that ended the run, "" while none
    i,             \* loop variable of `for i in range(1, num_iterations)`, 0 = unbound
    image_mask,    \* image_mask returned by prepare_images (windef.py only)
    frame_b,       \* the second frame multipass holds after prepare_images
    x, y,          \* grid of window centres held by multipass
    u, v,          \* displacement field of the current pass
    umask,         \* mask of the masked arrays u, v (all FALSE = nomask)
    flags,         \* validity flags of the current pass (TRUE = invalid)
    grid_mask,     \* image mask sampled on the grid
    xn, yn,        \* x, y local to multipass_img_deform (padded in windef_gpu)
    u_pre, v_pre,  \* predictor resampled onto the new grid
    deformed_by,   \* the field handed to deform_windows for the current pass
    saves,         \* the argument tuples tools.save has received
    log,           \* history: <<step, pass>> in execution order
    snap,          \* history: what the current pass's validation saw, what its
                   \* repair left open and the flags it returned
    caller,        \* the caller of multipass: the settings it handed over, the
                   \* pair it is processing, the pass during which it asked to
                   \* cancel, the signal-to-noise method of each first pass
    fn             \* arguments, locals and result of one call of a function
                   \* taken on its own (prepare_images, deform_windows, the
                   \* padding of multipass_img_deform)

vars == <<settings, pc, err, i, image_mask, frame_b, x, y, u, v, umask, flags, grid_mask,
          xn, yn, u_pre, v_pre, deformed_by, saves, log, snap, caller, fn>>

----------------------------------------------------------------------------
(* Bounds of the model *)

MaxIter == 3
FrameH == 12
FrameW == 16

\* residual displacements (u, v) of one window, in pixels
Residuals == {<<0, 0>>, <<1, 2>>}
Impls == {"cpu", "gpu"}
\* settings.interpolation_order: a degree the spline fits on the grids here,
\* and the default of PIVSettings
Orders == {1, 3}

\* Displacements are counted in units of 1 / Unit pixel.  On the grids of the
\* model a resampled value is a mean of two or of four values of the previous
\* pass, so each pass divides the unit by at most four.
Unit == 4 ^ (MaxIter - 1)

NaN == 0 - 1000000

frame_shape == <<FrameH, FrameW>>

----------------------------------------------------------------------------
(* Array helpers *)

Rows(a) == Len(a)
Cols(a) == IF Len(a) = 0 THEN 0 ELSE Len(a[1])
Shape(a) == <<Rows(a), Cols(a)>>
Cells(a) == (1..Rows(a)) \X (1..Cols(a))
Full(shape, val) == [r \in 1..shape[1] |-> [c \in 1..shape[2] |-> val]]
Empty == <<>>

Neg(a) == IF a = NaN THEN NaN ELSE 0 - a
Add(a, b) == IF a = NaN \/ b = NaN THEN NaN ELSE a + b
NegField(f) == [r \in 1..Rows(f) |-> [c \in 1..Cols(f) |-> Neg(f[r][c])]]
AddFieldKeepsResidual(f, g) == f
AddField(f, g) == [r \in 1..Rows(f) |-> [c \in 1..Cols(f) |-> Add(f[r][c], g[r][c])]]
FlipRows(f) == [r \in 1..Rows(f) |-> f[Rows(f) + 1 - r]]
CeilDiv(a, b) == (a + b - 1) \div b
Abs(a) == IF a < 0 THEN 0 - a ELSE a

RECURSIVE SumOver(_, _)
SumOver(f, S) ==
    IF S = {} THEN 0
    ELSE LET c == CHOOSE e \in S : TRUE
         IN f[c[1]][c[2]] + SumOver(f, S \ {c})

FlaggedCells(fl) == {c \in Cells(fl) : fl[c[1]][c[2]]}
AllFlagged(fl) == \A c \in Cells(fl) : fl[c[1]][c[2]]

----------------------------------------------------------------------------
(* Grid Builder: get_field_shape / get_rect_coordinates of pyprocess.       *)
(* Rows and columns are floor((dim - w) / (w - o)) + 1; centres start at    *)
(* w / 2 and step by w - o.  Window sizes are even, so centres are pixels. *)

Malformed(w, o) == o >= w \/ w > FrameH \/ w > FrameW

get_field_shape(image_size, w, o) ==
    << (image_size[1] - w) \div (w - o) + 1, (image_size[2] - w) \div (w - o) + 1 >>

Centres(dim, w, o) ==
    [k \in 1..((dim - w) \div (w - o) + 1) |-> (k - 1) * (w - o) + w \div 2]

\* np.meshgrid(x_int, y_int): x varies along a row, y along a column
MeshX(x_int, y_int) == [r \in 1..Len(y_int) |-> [c \in 1..Len(x_int) |-> x_int[c]]]
MeshY(x_int, y_int) == [r \in 1..Len(y_int) |-> [c \in 1..Len(x_int) |-> y_int[r]]]

get_rect_coordinates(image_size, w, o) ==
    LET x_int == Centres(image_size[2], w, o)
        y_int == Centres(image_size[1], w, o)
    IN  << MeshX(x_int, y_int), MeshY(x_int, y_int) >>

----------------------------------------------------------------------------
(* Collaborators *)

\* the sets of cells that inputs single out on a grid: none, the first cell,
\* the last cell, every other cell, all
FirstCell(shape) == {<<1, 1>>} \cap ((1..shape[1]) \X (1..shape[2]))
LastCell(shape) == {<<shape[1], shape[2]>>} \cap ((1..shape[1]) \X (1..shape[2]))
Checker(shape) == {c \in (1..shape[1]) \X (1..shape[2]) : (c[1] + c[2]) % 2 = 0}
AllCells(shape) == (1..shape[1]) \X (1..shape[2])

\* extended_search_area_piv: one (u, v) residual per window, or no result at
\* all when the engine raises on a window (Empty).  The fields drawn are
\* zero all over or differ from cell to cell.
CorrelationOutcomes(shape) ==
    {Empty} \cup
    {[r \in 1..shape[1] |-> [c \in 1..shape[2] |->
        IF <<r, c>> \in S THEN <<1 * Unit, 2 * Unit>> ELSE <<0, 0>>]] :
            S \in {{}, Checker(shape)}}
ResidualU(out) == [r \in 1..Rows(out) |-> [c \in 1..Cols(out) |-> out[r][c][1]]]
ResidualV(out) == [r \in 1..Rows(out) |-> [c \in 1..Cols(out) |-> out[r][c][2]]]

\* validation.typical_validation: any cell may fail a criterion; the fields
\* drawn flag nothing, the first cell, the last cell, or everything
FlagFields(shape) ==
    {[r \in 1..shape[1] |-> [c \in 1..shape[2] |-> <<r, c>> \in S]] :
        S \in {{}, FirstCell(shape), LastCell(shape), AllCells(shape)}}

\* the mean of f over the cells S, cut to whole pixels
MeanOver(f, S) == (SumOver(f, S) \div (Cardinality(S) * Unit)) * Unit

\* smoothn.smoothn: the smoothest field through the finite data, its mean
smoothn(f) ==
    LET fin == {c \in Cells(f) : f[c[1]][c[2]] # NaN}
    IN  Full(Shape(f), IF fin = {} THEN NaN ELSE MeanOver(f, fin))

\* the mask of the array smoothn.smoothn returns: the smoother is not part
\* of the sources, it may hand back a masked array or a plain one
SmoothedMasks(m) == {m, Full(Shape(m), FALSE)}

\* filters.replace_outliers: flagged cells become NaN and are refilled from
\* the cells around them; res is the set of cells the kernel reached within
\* max_iter, the others stay NaN.
LocalMean(f, fl) ==
    LET ok == {c \in Cells(f) : ~fl[c[1]][c[2]] /\ f[c[1]][c[2]] # NaN}
    IN  IF ok = {} THEN NaN ELSE MeanOver(f, ok)

replace_outliers(f, fl, res) ==
    [r \in 1..Rows(f) |-> [c \in 1..Cols(f) |->
        IF fl[r][c]
        THEN IF <<r, c>> \in res THEN LocalMean(f, fl) ELSE NaN
        ELSE f[r][c]]]

Resolvable(f, fl) ==
    IF LocalMean(f, fl) = NaN THEN {{}} ELSE SUBSET FlaggedCells(fl)

filledKeepsMasked(f, m) == f

\* np.ma.filled(a, 0.)
filled(f, m) ==
    [r \in 1..Rows(f) |-> [c \in 1..Cols(f) |-> IF m[r][c] THEN 0 ELSE f[r][c]]]

\* scn.map_coordinates(mask, [y, x]).astype(bool) at pixel coordinates
SampleMask(mask, yy, xx) ==
    [r \in 1..Rows(yy) |-> [c \in 1..Cols(yy) |-> mask[yy[r][c] + 1][xx[r][c] + 1]]]

\* RectBivariateSpline(y_old, x_old, f, kx=k, ky=k) raises instead of
\* fitting: FITPACK takes degrees 1..5 and needs more than k centres on each
\* axis
SplineRaises(k, y_old, x_old) ==
    k < 1 \/ k > 5 \/ Len(y_old) <= k \/ Len(x_old) <= k

\* the spline is evaluated inside [old[0], old[-1]]: a point outside is
\* moved to the nearer end
Held(old, p) ==
    IF p < old[1] THEN old[1] ELSE IF p > old[Len(old)] THEN old[Len(old)] ELSE p

\* the interval old[j] <= p < old[j + 1] that holds p (the last interval
\* takes its right end too)
Knot(old, p) ==
    CHOOSE j \in 1..(Len(old) - 1) :
        /\ old[j] <= Held(old, p)
        /\ j = Len(old) - 1 \/ Held(old, p) < old[j + 1]

\* the old centres are evenly spaced; the weights of the bilinear
\* interpolant are counted in units of 1 / SplineDen of the cell's area
SplineDen(y_old, x_old) == (y_old[2] - y_old[1]) * (x_old[2] - x_old[1])

\* FITPACK solves for the coefficients by back-substitution from the last
\* row and column towards the first, so a NaN at centre (r0, c0) is in every
\* coefficient (r, c) with r <= r0 and c <= c0; a value in the interval
\* (jy, jx) is a sum over the coefficients jy, jy + 1 by jx, jx + 1
NaNReaches(f, jy, jx) ==
    \E c \in Cells(f) : c[1] >= jy /\ c[2] >= jx /\ f[c[1]][c[2]] = NaN

\* RectBivariateSpline(y_old, x_old, f, kx=1, ky=1)(y_new, x_new): the
\* bilinear interpolant of f through the old centres, times SplineDen
Resample(y_old, x_old, f, y_new, x_new) ==
    [r \in 1..Len(y_new) |-> [c \in 1..Len(x_new) |->
        LET jy == Knot(y_old, y_new[r])
            jx == Knot(x_old, x_new[c])
            by == Held(y_old, y_new[r]) - y_old[jy]
            bx == Held(x_old, x_new[c]) - x_old[jx]
            ay == y_old[jy + 1] - Held(y_old, y_new[r])
            ax == x_old[jx + 1] - Held(x_old, x_new[c])
        IN  IF NaNReaches(f, jy, jx) THEN NaN
            ELSE ay * ax * f[jy][jx] + ay * bx * f[jy][jx + 1]
                     + by * ax * f[jy + 1][jx] + by * bx * f[jy + 1][jx + 1]]]

\* the values of the spline: the weighted sums over the weight of a whole
\* cell.  The sums are multiples of den because displacements are counted
\* in units of 1 / Unit pixel.
InPixels(f, den) ==
    [r \in 1..Rows(f) |-> [c \in 1..Cols(f) |->
        IF f[r][c] = NaN THEN NaN ELSE f[r][c] \div den]]

\* Python's s[a:-b] for a, b >= 0: s[a:-0] is s[a:0], the empty slice
PySlice(s, a, b) == IF b = 0 THEN <<>> ELSE SubSeq(s, a + 1, Len(s) - b)
Slice2D(f, ya, xa) ==
    LET rows == PySlice(f, ya[1], ya[2])
    IN  [r \in 1..Len(rows) |-> PySlice(rows[r], xa[1], xa[2])]

\* the column y[:, 0] and the row x[0, :] of a meshgrid
FirstColumn(a) == [r \in 1..Rows(a) |-> a[r][1]]
FirstRow(a) == a[1]

----------------------------------------------------------------------------
(* Settings *)

\* a window size and an overlap for one pass: a coarse grid (2 x 3 centres),
\* a finer one (3 x 4 centres, every second of them midway between coarse
\* centres), and a pair whose overlap is the window size
Geometries == {<<8, 4>>, <<4, 0>>, <<4, 4>>}

\* windowsizes and overlap, entry k for pass k - 1; entries past
\* num_iterations are never read and are left out.  The windows of a
\* schedule do not grow from pass to pass, and the pair that is no geometry
\* is an entry of the first or of the second pass.
Schedules(n) ==
    {s \in UNION {[1..L -> Geometries] : L \in 1..n} :
        /\ \A k \in 1..(Len(s) - 1) : s[k + 1][1] <= s[k][1]
        /\ \A k \in 3..Len(s) : s[k][2] < s[k][1]}

NoneMask == Empty
BandMask(k) == [r \in 1..FrameH |-> [c \in 1..FrameW |-> r <= k]]
StaticMasks == {NoneMask, BandMask(FrameH \div 2)}

SettingsSpace ==
    {[impl |-> im, num_iterations |-> n,
      windowsizes |-> [k \in 1..Len(s) |-> s[k][1]],
      overlap |-> [k \in 1..Len(s) |-> s[k][2]],
      smoothn |-> sm, validation_first_pass |-> vf, replace_vectors |-> rv,
      static_mask |-> m, interpolation_order |-> io,
      sig2noise_validate |-> sv, sig2noise_method |-> "peak2peak"] :
        im \in Impls, n \in 1..MaxIter, s \in Schedules(MaxIter),
        sm \in BOOLEAN, vf \in BOOLEAN, rv \in BOOLEAN, m \in StaticMasks,
        io \in Orders, sv \in BOOLEAN}

NoSnap ==
    [pass |-> 0 - 1, flags |-> Empty, u |-> Empty, v |-> Empty, umask |-> Empty,
     repaired |-> FALSE, unresolved |-> {}, returned |-> Empty]

\* a frame: the image it was made from and the fields it has been deformed
\* by, oldest first
NoFrame == [image |-> "", warps |-> <<>>]
Prepared(image) == [image |-> image, warps |-> <<>>]

\* deform_windows(frame, x, y, u, v, ...): frame sampled at (x + u, y - v)
Deformed(frame, xx, yy, uu, vv) ==
    [frame EXCEPT !.warps = Append(@, [x |-> xx, y |-> yy, u |-> uu, v |-> vv])]

\* the locals of multipass_img_deform around its deformation: the frame_b
\* it was called with, the arguments of deform_windows, the frame_b it holds
\* afterwards and the frame it hands to the correlation
NotDeformed ==
    [frame |-> NoFrame, x |-> Empty, y |-> Empty, u |-> Empty, v |-> Empty,
     result |-> NoFrame, correlated |-> NoFrame]
NoCall == [name |-> ""]

\* the caller hands its settings object to multipass for its first pair
Calls(st) ==
    [given |-> st, pair |-> 1, cancel |-> 0 - 1, first_s2n |-> <<>>,
     correlations |-> <<>>]

\* the keyword arguments of one extended_search_area_piv call;
\* search_area_size = 0 stands for "not passed" (the engine then searches
\* the window itself)
Correlation(pass, w, o, search) ==
    [pass |-> pass, window_size |-> w, overlap |-> o, search_area_size |-> search]

\* nothing of a run exists yet
Fresh ==
    /\ err = ""
    /\ i = 0
    /\ image_mask = Empty
    /\ frame_b = NoFrame
    /\ x = Empty /\ y = Empty /\ u = Empty /\ v = Empty
    /\ umask = Empty /\ flags = Empty /\ grid_mask = Empty
    /\ xn = Empty /\ yn = Empty /\ u_pre = Empty /\ v_pre = Empty
    /\ deformed_by = NotDeformed
    /\ saves = <<>>
    /\ log = <<>>
    /\ snap = NoSnap

\* the state in which multipass is entered
Entry == pc = "prepare" /\ Fresh

\* runs with signal-to-noise validation switched on, whose schedule has an
\* entry for every pass or for the first pass only.  windef_gpu.py never
\* reads settings.static_mask: its runs with a mask are the single-pass ones.
Init ==
    /\ settings \in {st \in SettingsSpace :
                        /\ Len(st.windowsizes) \in {1, st.num_iterations}
                        /\ st.sig2noise_validate
                        /\ (st.impl = "gpu" /\ st.static_mask # NoneMask)
                               => st.num_iterations = 1}
    /\ caller = Calls(settings)
    /\ fn = NoCall
    /\ Entry

Raise(kind) == pc' = "error" /\ err' = kind
Goto(label) == pc' = label /\ err' = err
Logged(step, pass) == log' = Append(log, <<step, pass>>)

window_size_of_first_pass == settings.windowsizes[1]

window_size == settings.windowsizes[i + 1]
overlap == settings.overlap[i + 1]

----------------------------------------------------------------------------
(* multipass: preparation and first pass *)

\* frame_a, frame_b, image_mask = prepare_images(...): only windef.py returns
\* the image mask
PrepareImages ==
    /\ pc = "prepare"
    /\ image_mask' = IF settings.impl = "cpu" THEN settings.static_mask ELSE Empty
    /\ frame_b' = Prepared("file_b")
    /\ Goto("first_pass")
    /\ UNCHANGED <<fn, caller, settings, i, x, y, u, v, umask, flags, grid_mask, xn, yn,
                   u_pre, v_pre, deformed_by, saves, log, snap>>

\* first_pass: correlate at windowsizes[0] / overlap[0], then build the grid
FirstPass ==
    /\ pc = "first_pass"
    /\ LET w == settings.windowsizes[1]
           o == settings.overlap[1]
       IN  IF Malformed(w, o)
           THEN /\ Raise("InvalidParameter")
                /\ UNCHANGED <<x, y, u, v, umask, log, caller>>
           ELSE \E out \in CorrelationOutcomes(get_field_shape(frame_shape, w, o)) :
                    /\ Logged("correlate", 0)
                    /\ caller' = [caller EXCEPT
                           !.first_s2n = Append(@, settings.sig2noise_method),
                           !.correlations = Append(@, Correlation(0, w, o, w))]
                    /\ IF out = Empty
                       THEN /\ Raise("CorrelationFailure")
                            /\ UNCHANGED <<x, y, u, v, umask>>
                       ELSE /\ u' = ResidualU(out)
                            /\ v' = ResidualV(out)
                            /\ umask' = Full(Shape(out), FALSE)
                            /\ x' = get_rect_coordinates(frame_shape, w, o)[1]
                            /\ y' = get_rect_coordinates(frame_shape, w, o)[2]
                            /\ Goto("smooth_first")
    /\ UNCHANGED <<fn, settings, i, image_mask, frame_b, flags, grid_mask, xn, yn,
                   u_pre, v_pre, deformed_by, saves, snap>>

SmoothFirstSkipped == FALSE

SmoothFirstCond == settings.smoothn

SmoothFirst ==
    /\ pc = "smooth_first"
    /\ IF SmoothFirstCond
       THEN /\ u' = smoothn(u)
            /\ v' = smoothn(v)
            /\ Logged("smooth", 0)
       ELSE UNCHANGED <<u, v, log>>
    /\ Goto(IF settings.impl = "cpu" THEN "grid_mask_first" ELSE "validate_first")
    /\ UNCHANGED <<fn, caller, settings, i, image_mask, frame_b, x, y, umask, flags, grid_mask, xn, yn,
                   u_pre, v_pre, deformed_by, saves, snap>>

\* windef.py only: the image mask sampled at the window centres
GridMaskFirst ==
    /\ pc = "grid_mask_first"
    /\ grid_mask' = IF image_mask = Empty
                    THEN Full(Shape(u), FALSE)
                    ELSE SampleMask(image_mask, y, x)
    /\ Goto("validate_first")
    /\ UNCHANGED <<fn, caller, settings, i, image_mask, frame_b, x, y, u, v, umask, flags, xn, yn,
                   u_pre, v_pre, deformed_by, saves, log, snap>>

Seen(fl) ==
    [pass |-> i, flags |-> fl, u |-> u, v |-> v, umask |-> umask,
     repaired |-> FALSE, unresolved |-> {}, returned |-> Empty]

ValidateFirst ==
    /\ pc = "validate_first"
    /\ IF settings.validation_first_pass
       THEN /\ flags' \in FlagFields(Shape(u))
            /\ Logged("validate", 0)
       ELSE /\ flags' = Full(Shape(u), FALSE)
            /\ Logged("noflags", 0)
    /\ snap' = Seen(flags')
    /\ Goto("repair_first")
    /\ UNCHANGED <<fn, caller, settings, i, image_mask, frame_b, x, y, u, v, umask, grid_mask, xn, yn,
                   u_pre, v_pre, deformed_by, saves>>

RepairFirstOnlyOnRequest == settings.num_iterations = 1 /\ settings.replace_vectors

RepairFirstCond ==
    \/ (settings.num_iterations = 1 /\ settings.replace_vectors)
    \/ settings.num_iterations > 1

RepairFirst ==
    /\ pc = "repair_first"
    /\ IF RepairFirstCond
       THEN \E res \in Resolvable(u, flags) :
                /\ u' = replace_outliers(u, flags, res)
                /\ v' = replace_outliers(v, flags, res)
                /\ Logged("repair", 0)
                /\ snap' = [snap EXCEPT !.repaired = TRUE,
                                        !.unresolved = FlaggedCells(flags) \ res,
                                        !.returned = flags]
       ELSE /\ snap' = [snap EXCEPT !.returned = flags]
            /\ UNCHANGED <<u, v, log>>
    /\ Goto("loop")
    /\ UNCHANGED <<fn, caller, settings, i, image_mask, frame_b, x, y, umask, flags, grid_mask, xn, yn,
                   u_pre, v_pre, deformed_by, saves>>

\* for i in range(1, settings.num_iterations)
LoopHead ==
    /\ pc = "loop"
    /\ IF i + 1 < settings.num_iterations
       THEN i' = i + 1 /\ snap' = NoSnap /\ Goto("mp_grid")
       ELSE i' = i /\ snap' = snap /\ Goto("complete")
    /\ UNCHANGED <<fn, caller, settings, image_mask, frame_b, x, y, u, v, umask, flags, grid_mask, xn, yn,
                   u_pre, v_pre, deformed_by, saves, log>>

----------------------------------------------------------------------------
(* multipass_img_deform(frame_a, frame_b, i, x, y, u, v, settings) *)

\* windef_gpu.py: rings of extra centres that carry the grid to the frame edge
\* along one axis of length dim: (int(np.ceil(c_int[0] / (w - o))),
\*                                 int(np.ceil((dim - c_int[-1] - 1) / (w - o))))
axis_add(dim, w, o) ==
    LET c_int == Centres(dim, w, o)
    IN  << CeilDiv(c_int[1], w - o), CeilDiv(dim - c_int[Len(c_int)] - 1, w - o) >>
y_add(w, o) == axis_add(FrameH, w, o)
x_add(w, o) == axis_add(FrameW, w, o)

\* np.hstack((c[0] - arange(a, 0, -1) * step, c, c[-1] + arange(1, b + 1) * step))
Pad(c_int, add, step) ==
    [k \in 1..add[1] |-> c_int[1] - (add[1] - k + 1) * step]
        \o c_int
        \o [k \in 1..add[2] |-> c_int[Len(c_int)] + k * step]

MPGrid ==
    /\ pc = "mp_grid"
    /\ IF i + 1 > Len(settings.windowsizes)
       THEN Raise("IndexError") /\ UNCHANGED <<xn, yn, log>>
       ELSE IF Malformed(window_size, overlap)
       THEN Raise("InvalidParameter") /\ UNCHANGED <<xn, yn, log>>
       ELSE LET g == get_rect_coordinates(frame_shape, window_size, overlap)
                x_int == Pad(FirstRow(g[1]), x_add(window_size, overlap),
                             window_size - overlap)
                y_int == Pad(FirstColumn(g[2]), y_add(window_size, overlap),
                             window_size - overlap)
            IN  /\ IF settings.impl = "cpu"
                   THEN xn' = g[1] /\ yn' = g[2]
                   ELSE xn' = MeshX(x_int, y_int) /\ yn' = MeshY(x_int, y_int)
                /\ Logged("grid", i)
                /\ Goto("mp_resample")
    /\ UNCHANGED <<fn, caller, settings, i, image_mask, frame_b, x, y, u, v, umask, flags, grid_mask,
                   u_pre, v_pre, deformed_by, saves, snap>>

\* the previous field on the new grid; windef.py fills masked cells with 0.
\* A new centre is an old centre, lies midway between old centres or lies
\* outside the old grid.
MPResample ==
    /\ pc = "mp_resample"
    /\ LET u_old == IF settings.impl = "cpu" THEN filled(u, umask) ELSE u
           v_old == IF settings.impl = "cpu" THEN filled(v, umask) ELSE v
           y_old == FirstColumn(y)
           x_old == FirstRow(x)
       IN  IF SplineRaises(settings.interpolation_order, y_old, x_old)
           THEN Raise("SplineError") /\ UNCHANGED <<u_pre, v_pre, log>>
           ELSE /\ u_pre' = InPixels(Resample(y_old, x_old, u_old,
                                              FirstColumn(yn), FirstRow(xn)),
                                     SplineDen(y_old, x_old))
                /\ v_pre' = InPixels(Resample(y_old, x_old, v_old,
                                              FirstColumn(yn), FirstRow(xn)),
                                     SplineDen(y_old, x_old))
                /\ Logged("resample", i)
                /\ Goto("mp_deform")
    /\ UNCHANGED <<fn, caller, settings, i, image_mask, frame_b, x, y, u, v, umask, flags, grid_mask,
                   xn, yn, deformed_by, saves, snap>>

\* frame_b = deform_windows(frame_b, x, y, u_pre, -v_pre, ...): the frame_b
\* multipass passed in is deformed and the result is bound to the local name,
\* the frame_b of multipass is left alone.  windef.py fits a spline of
\* degree settings.interpolation_order to the predictor on the new grid.
MPDeform ==
    /\ pc = "mp_deform"
    /\ IF /\ settings.impl = "cpu"
          /\ SplineRaises(settings.interpolation_order, FirstColumn(yn), FirstRow(xn))
       THEN Raise("SplineError") /\ UNCHANGED <<deformed_by, log>>
       ELSE /\ deformed_by' =
                   [frame |-> frame_b, x |-> xn, y |-> yn,
                    u |-> u_pre, v |-> NegField(v_pre),
                    result |-> Deformed(frame_b, xn, yn, u_pre, NegField(v_pre)),
                    correlated |-> NoFrame]
            /\ Logged("deform", i)
            /\ Goto("mp_correlate")
    /\ UNCHANGED <<fn, caller, settings, i, image_mask, frame_b, x, y, u, v, umask, flags, grid_mask,
                   xn, yn, u_pre, v_pre, saves, snap>>

\* if settings.sig2noise_validate is False: settings.sig2noise_method = None
\* then the correlation of frame_a with the deformed frame_b
MPCorrelate ==
    /\ pc = "mp_correlate"
    /\ settings' = IF settings.sig2noise_validate = FALSE
                   THEN [settings EXCEPT !.sig2noise_method = "None"]
                   ELSE settings
    /\ \E out \in CorrelationOutcomes(get_field_shape(frame_shape, window_size, overlap)) :
           IF out = Empty
           THEN Raise("CorrelationFailure") /\ UNCHANGED <<u, v, umask>>
           ELSE /\ u' = ResidualU(out)
                /\ v' = ResidualV(out)
                /\ umask' = Full(Shape(out), FALSE)
                /\ Goto("mp_accumulate")
    /\ Logged("correlate", i)
    /\ caller' = [caller EXCEPT
           !.correlations = Append(@, Correlation(i, window_size, overlap, 0))]
    /\ deformed_by' = [deformed_by EXCEPT !.correlated = deformed_by.result]
    /\ UNCHANGED <<fn, i, image_mask, frame_b, x, y, flags, grid_mask, xn, yn,
                   u_pre, v_pre, saves, snap>>

\* u += u_pre (windef.py); u += u_pre[y_add[0]:-y_add[1], x_add[0]:-x_add[1]]
Predictor(f) ==
    IF settings.impl = "cpu" THEN f
    ELSE Slice2D(f, y_add(window_size, overlap), x_add(window_size, overlap))

MPAccumulate ==
    /\ pc = "mp_accumulate"
    /\ IF Shape(Predictor(u_pre)) # Shape(u)
       THEN Raise("BroadcastError") /\ UNCHANGED <<u, v, log>>
       ELSE /\ u' = AddField(u, Predictor(u_pre))
            /\ v' = AddField(v, Predictor(v_pre))
            /\ Logged("accumulate", i)
            /\ Goto("mp_mask")
    /\ UNCHANGED <<fn, caller, settings, i, image_mask, frame_b, x, y, umask, flags, grid_mask, xn, yn,
                   u_pre, v_pre, deformed_by, saves, snap>>

\* the grid mask of the pass; windef.py wraps u, v into masked arrays with it
PassGridMask ==
    IF settings.impl = "cpu" /\ settings.static_mask # NoneMask
    THEN SampleMask(settings.static_mask, yn, xn)
    ELSE Full(Shape(u), FALSE)

MPMask ==
    /\ pc = "mp_mask"
    /\ grid_mask' = PassGridMask
    /\ umask' = IF settings.impl = "cpu" THEN PassGridMask ELSE umask
    /\ Logged("mask", i)
    /\ Goto("mp_validate")
    /\ UNCHANGED <<fn, caller, settings, i, image_mask, frame_b, x, y, u, v, flags, xn, yn,
                   u_pre, v_pre, deformed_by, saves, snap>>

ValidationExhausted(fl) == AllFlagged(fl)

MPValidate ==
    /\ pc = "mp_validate"
    /\ flags' \in FlagFields(Shape(u))
    /\ Logged("validate", i)
    /\ snap' = Seen(flags')
    /\ IF ValidationExhausted(flags') THEN Raise("ValidationError") ELSE Goto("mp_repair")
    /\ UNCHANGED <<fn, caller, settings, i, image_mask, frame_b, x, y, u, v, umask, grid_mask, xn, yn,
                   u_pre, v_pre, deformed_by, saves>>

RepairLoopAlways == TRUE

\* "Turn off remove_outliers for the last step"
RepairLoopCond == i + 1 # settings.num_iterations

\* windef_gpu.py resets the flags after the repair
FlagsAfterRepair(fl) ==
    IF settings.impl = "gpu" THEN Full(Shape(fl), FALSE) ELSE fl

MPRepair ==
    /\ pc = "mp_repair"
    /\ IF RepairLoopCond
       THEN \E res \in Resolvable(u, flags) :
                /\ u' = replace_outliers(u, flags, res)
                /\ v' = replace_outliers(v, flags, res)
                /\ flags' = FlagsAfterRepair(flags)
                /\ Logged("repair", i)
                /\ snap' = [snap EXCEPT !.repaired = TRUE,
                                        !.unresolved = FlaggedCells(flags) \ res]
       ELSE UNCHANGED <<u, v, flags, log, snap>>
    /\ Goto("mp_return")
    /\ UNCHANGED <<fn, caller, settings, i, image_mask, frame_b, x, y, umask, grid_mask, xn, yn,
                   u_pre, v_pre, deformed_by, saves>>

\* return x, y, u, v, grid_mask, flags (windef_gpu.py cuts the padding off x, y)
MPReturn ==
    /\ pc = "mp_return"
    /\ x' = IF settings.impl = "cpu" THEN xn
            ELSE Slice2D(xn, y_add(window_size, overlap), x_add(window_size, overlap))
    /\ y' = IF settings.impl = "cpu" THEN yn
            ELSE Slice2D(yn, y_add(window_size, overlap), x_add(window_size, overlap))
    /\ snap' = [snap EXCEPT !.returned = flags]
    /\ xn' = Empty /\ yn' = Empty /\ u_pre' = Empty /\ v_pre' = Empty
    /\ deformed_by' = NotDeformed
    /\ Goto("smooth_loop")
    /\ UNCHANGED <<fn, caller, settings, i, image_mask, frame_b, u, v, umask, flags, grid_mask, saves, log>>

----------------------------------------------------------------------------
(* multipass: rest of the loop body and finalisation *)

SmoothLoopAlways == settings.smoothn

SmoothLoopCond == settings.smoothn /\ i + 1 # settings.num_iterations

SmoothLoop ==
    /\ pc = "smooth_loop"
    /\ IF SmoothLoopCond
       THEN /\ u' = smoothn(u)
            /\ v' = smoothn(v)
            /\ umask' \in SmoothedMasks(umask)
            /\ Logged("smooth", i)
       ELSE UNCHANGED <<u, v, umask, log>>
    /\ Goto("loop")
    /\ UNCHANGED <<fn, caller, settings, i, image_mask, frame_b, x, y, flags, grid_mask, xn, yn,
                   u_pre, v_pre, deformed_by, saves, snap>>

\* print(f'... completed pass {i+1} ...') in windef.py reads the loop
\* variable, which is unbound when the loop body never ran;
\* windef_gpu.py prints settings.num_iterations instead
LoopVariableBound == settings.impl = "gpu" \/ i # 0

Complete ==
    /\ pc = "complete"
    /\ IF LoopVariableBound
       THEN Goto(IF settings.impl = "cpu" THEN "fill" ELSE "final_mask")
       ELSE Raise("NameError")
    /\ UNCHANGED <<fn, caller, settings, i, image_mask, frame_b, x, y, u, v, umask, flags, grid_mask,
                   xn, yn, u_pre, v_pre, deformed_by, saves, log, snap>>

\* windef.py: u = u.filled(0.); v = v.filled(0.)
Fill ==
    /\ pc = "fill"
    /\ u' = filled(u, umask)
    /\ v' = filled(v, umask)
    /\ umask' = Full(Shape(u), FALSE)
    /\ Logged("fill", i)
    /\ Goto("final_mask")
    /\ UNCHANGED <<fn, caller, settings, i, image_mask, frame_b, x, y, flags, grid_mask, xn, yn,
                   u_pre, v_pre, deformed_by, saves, snap>>

\* the grid mask handed to tools.save
FinalGridMask ==
    IF settings.impl = "cpu"
    THEN IF image_mask # Empty THEN SampleMask(image_mask, y, x) ELSE grid_mask
    ELSE Full(Shape(u), FALSE)

FinalMask ==
    /\ pc = "final_mask"
    /\ grid_mask' = FinalGridMask
    /\ umask' = IF settings.impl = "cpu" /\ image_mask # Empty THEN FinalGridMask ELSE umask
    /\ Goto("save")
    /\ UNCHANGED <<fn, caller, settings, i, image_mask, frame_b, x, y, u, v, flags, xn, yn,
                   u_pre, v_pre, deformed_by, saves, log, snap>>

ExportedUnflipped(f) == NegField(f)

\* tools.save(txt_file, x, y, -u[::-1], -v[::-1], flags, grid_mask, settings)
Exported(f) == NegField(FlipRows(f))

Save ==
    /\ pc = "save"
    /\ saves' = Append(saves, [x |-> x, y |-> y, u |-> Exported(u), v |-> Exported(v),
                               umask |-> FlipRows(umask),
                               flags |-> flags, mask |-> grid_mask])
    /\ Logged("save", i)
    /\ Goto("done")
    /\ UNCHANGED <<fn, caller, settings, i, image_mask, frame_b, x, y, u, v, umask, flags, grid_mask,
                   xn, yn, u_pre, v_pre, deformed_by, snap>>

Next ==
    \/ PrepareImages
    \/ FirstPass
    \/ SmoothFirst
    \/ GridMaskFirst
    \/ ValidateFirst
    \/ RepairFirst
    \/ LoopHead
    \/ MPGrid
    \/ MPResample
    \/ MPDeform
    \/ MPCorrelate
    \/ MPAccumulate
    \/ MPMask
    \/ MPValidate
    \/ MPRepair
    \/ MPReturn
    \/ SmoothLoop
    \/ Complete
    \/ Fill
    \/ FinalMask
    \/ Save

Spec == Init /\ [][Next]_vars

----------------------------------------------------------------------------
(* The caller: piv / Multiprocesser.run hands the same settings object to  *)
(* multipass for one image pair after the other.  multipass takes the pair *)
(* and the settings and nothing else: a caller that wants to cancel has no *)
(* argument to say so, and the loop of multipass reads none.               *)

MaxPairs == 2

FirstPassLabels ==
    {"first_pass", "smooth_first", "grid_mask_first", "validate_first", "repair_first"}
IterationLabels ==
    {"mp_grid", "mp_resample", "mp_deform", "mp_correlate", "mp_accumulate",
     "mp_mask", "mp_validate", "mp_repair", "mp_return", "smooth_loop"}
Running == pc \in FirstPassLabels \cup IterationLabels
CurrentPass == IF pc \in FirstPassLabels THEN 0 ELSE i

\* runs over well-formed schedules with one entry per pass, without
\* smoothing, repair on request, first-pass validation or mask, with
\* signal-to-noise validation on or off
InitCaller ==
    /\ settings \in {st \in SettingsSpace :
                        /\ Len(st.windowsizes) = st.num_iterations
                        /\ \A k \in 1..Len(st.windowsizes) :
                               ~Malformed(st.windowsizes[k], st.overlap[k])
                        /\ ~st.smoothn /\ ~st.validation_first_pass
                        /\ ~st.replace_vectors /\ st.static_mask = NoneMask}
    /\ caller = Calls(settings)
    /\ fn = NoCall
    /\ Entry

\* the caller asks to cancel while a pass is running
RequestCancel ==
    /\ Running
    /\ caller.cancel < 0
    /\ caller' = [caller EXCEPT !.cancel = CurrentPass]
    /\ UNCHANGED <<settings, pc, err, i, image_mask, frame_b, x, y, u, v, umask, flags,
                   grid_mask, xn, yn, u_pre, v_pre, deformed_by, saves, log, snap, fn>>

\* the pair is saved: multipass is entered for the next pair with the same
\* settings object
NextPair ==
    /\ pc = "done"
    /\ caller.pair < MaxPairs
    /\ caller' = [caller EXCEPT !.pair = @ + 1, !.cancel = 0 - 1,
                                !.correlations = <<>>]
    /\ pc' = "prepare"
    /\ i' = 0
    /\ image_mask' = Empty
    /\ frame_b' = NoFrame
    /\ x' = Empty /\ y' = Empty /\ u' = Empty /\ v' = Empty
    /\ umask' = Empty /\ flags' = Empty /\ grid_mask' = Empty
    /\ saves' = <<>>
    /\ log' = <<>>
    /\ snap' = NoSnap
    /\ UNCHANGED <<settings, err, xn, yn, u_pre, v_pre, deformed_by, fn>>

NextCaller ==
    \/ Next
    \/ RequestCancel
    \/ NextPair

SpecCaller == InitCaller /\ [][NextCaller]_vars

----------------------------------------------------------------------------
(* Functions taken on their own: one call each, its arguments drawn in the *)
(* initial state, no run of multipass around it.                           *)

run_vars == <<settings, err, i, image_mask, frame_b, x, y, u, v, umask, flags, grid_mask,
              xn, yn, u_pre, v_pre, deformed_by, saves, log, snap, caller>>

NoSettings == [impl |-> ""]
NoRun == settings = NoSettings /\ caller = Calls(NoSettings) /\ Fresh

----------------------------------------------------------------------------
(* The padded grid of multipass_img_deform (windef_gpu.py) for any frame,  *)
(* window size and overlap                                                 *)

MaxDim == 6

EvenWindows(d) == {w \in 1..d : w % 2 = 0}

PadCalls ==
    {[name |-> "pad", shape |-> <<h, w>>, window_size |-> ws, overlap |-> o,
      y_add |-> <<0, 0>>, x_add |-> <<0, 0>>, x |-> Empty, y |-> Empty,
      x_ret |-> Empty, y_ret |-> Empty, u_pre |-> Empty, u_pre_cut |-> Empty,
      shapes |-> <<0, 0>>] :
        h \in 1..MaxDim, w \in 1..MaxDim,
        ws \in EvenWindows(MaxDim), o \in 0..(MaxDim - 1)}

InitPad ==
    /\ fn \in {c \in PadCalls : /\ c.overlap < c.window_size
                                 /\ c.window_size <= c.shape[1]
                                 /\ c.window_size <= c.shape[2]}
    /\ pc = "pad_call"
    /\ NoRun

\* the grid, its padding, a zero predictor on the padded grid and the slices
\* that multipass_img_deform takes of them: u += u_pre[...] raises when the
\* slice has not the shape of u, and the slices of x, y are then never taken
PadGrid ==
    /\ pc = "pad_call"
    /\ LET ws == fn.window_size
           o == fn.overlap
           g == get_rect_coordinates(fn.shape, ws, o)
           ya == axis_add(fn.shape[1], ws, o)
           xa == axis_add(fn.shape[2], ws, o)
           y_int == Pad(FirstColumn(g[2]), ya, ws - o)
           x_int == Pad(FirstRow(g[1]), xa, ws - o)
           shapes == get_field_shape(fn.shape, ws, o)
           cut == Slice2D(Full(<<Len(y_int), Len(x_int)>>, 0), ya, xa)
           before == [fn EXCEPT
                        !.y_add = ya, !.x_add = xa,
                        !.x = MeshX(x_int, y_int), !.y = MeshY(x_int, y_int),
                        !.u_pre = Full(<<Len(y_int), Len(x_int)>>, 0),
                        !.u_pre_cut = cut,
                        !.shapes = shapes]
       IN  IF Shape(cut) # shapes
           THEN /\ fn' = before
                /\ pc' = "error" /\ err' = "BroadcastError"
           ELSE /\ fn' = [before EXCEPT
                             !.x_ret = Slice2D(MeshX(x_int, y_int), ya, xa),
                             !.y_ret = Slice2D(MeshY(x_int, y_int), ya, xa)]
                /\ pc' = "pad_return" /\ err' = err
    /\ UNCHANGED <<settings, i, image_mask, frame_b, x, y, u, v, umask, flags, grid_mask,
                   xn, yn, u_pre, v_pre, deformed_by, saves, log, snap, caller>>

NextPad == PadGrid

SpecPad == InitPad /\ [][NextPad]_vars

----------------------------------------------------------------------------
(* One axis of the padded grid for any window size, odd ones included.     *)
(* Centres start at w / 2, so coordinates are counted in half pixels here: *)
(* the centre w / 2 is the number w, the step w - o the number 2 (w - o).  *)

\* get_rect_coordinates along one axis, in half pixels
HalfCentres(dim, w, o) ==
    [k \in 1..((dim - w) \div (w - o) + 1) |-> 2 * (k - 1) * (w - o) + w]

\* the mutation: the extra centres counted with floor instead of np.ceil
axis_add_half_floor(dim, w, o) ==
    LET c_int == HalfCentres(dim, w, o)
    IN  << c_int[1] \div (2 * (w - o)),
           (2 * dim - c_int[Len(c_int)] - 2) \div (2 * (w - o)) >>

\* (int(np.ceil(c_int[0] / (w - o))), int(np.ceil((dim - c_int[-1] - 1) / (w - o))))
\* with c_int in half pixels: numerator and denominator are both doubled
axis_add_half(dim, w, o) ==
    LET c_int == HalfCentres(dim, w, o)
    IN  << CeilDiv(c_int[1], 2 * (w - o)),
           CeilDiv(2 * dim - c_int[Len(c_int)] - 2, 2 * (w - o)) >>

AxisCalls ==
    {[name |-> "axis", dim |-> d, window_size |-> w, overlap |-> o,
      c_int |-> <<>>, add |-> <<0, 0>>, padded |-> <<>>] :
        d \in 1..MaxDim, w \in 1..MaxDim, o \in 0..(MaxDim - 1)}

InitAxis ==
    /\ fn \in {c \in AxisCalls : c.overlap < c.window_size /\ c.window_size <= c.dim}
    /\ pc = "axis_call"
    /\ NoRun

\* x, y = get_rect_coordinates(...); y_int = y[:, 0]; x_int = x[0, :]
AxisGrid ==
    /\ pc = "axis_call"
    /\ fn' = [fn EXCEPT !.c_int = HalfCentres(fn.dim, fn.window_size, fn.overlap)]
    /\ pc' = "axis_pad"
    /\ UNCHANGED run_vars

\* y_add / x_add and the np.hstack that puts the extra centres around c_int
AxisPad ==
    /\ pc = "axis_pad"
    /\ LET add == axis_add_half(fn.dim, fn.window_size, fn.overlap)
       IN  fn' = [fn EXCEPT
                    !.add = add,
                    !.padded = Pad(fn.c_int, add, 2 * (fn.window_size - fn.overlap))]
    /\ pc' = "axis_return"
    /\ UNCHANGED run_vars

NextAxis == AxisGrid \/ AxisPad

SpecAxis == InitAxis /\ [][NextAxis]_vars

----------------------------------------------------------------------------
(* prepare_images: frame_b is cropped about its centre where it is larger  *)
(* than frame_a and zero-padded where it is smaller (the same statements   *)
(* in windef.py and windef_gpu.py)                                         *)

MaxSide == 3

\* frame_a matters by its shape; the pixels of frame_b are numbered from 1,
\* so that a padded 0 is told from a pixel
ImagePairs ==
    {[name |-> "prepare_images",
      frame_a |-> Full(<<ha, wa>>, 0),
      frame_b |-> [r \in 1..hb |-> [c \in 1..wb |-> (r - 1) * wb + c]],
      cropped |-> Empty, pad_width |-> <<<<0, 0>>, <<0, 0>>>>, padded |-> FALSE] :
        ha \in 1..MaxSide, wa \in 1..MaxSide, hb \in 1..MaxSide, wb \in 1..MaxSide}

InitPrepare ==
    /\ fn \in ImagePairs
    /\ pc = "crop_pad_call"
    /\ NoRun

\* frame_b[:, offset : offset + n]
CropColumns(f, offset, n) == [r \in 1..Rows(f) |-> SubSeq(f[r], offset + 1, offset + n)]
\* frame_b[offset : offset + n, :]
CropRows(f, offset, n) == SubSeq(f, offset + 1, offset + n)

\* a = -(frame_b.shape[0] - frame_a.shape[0]) // 2
PadBefore(nb, na) == (0 - (nb - na)) \div 2

PadAfterAsBefore(a, nb, na) == a

\* aa = - a + frame_a.shape[0] - frame_b.shape[0]
PadAfter(a, nb, na) == 0 - a + na - nb

\* np.pad(f, pad_width=((a, aa), (b, bb)), mode='constant')
np_pad(f, pw) ==
    [r \in 1..(pw[1][1] + Rows(f) + pw[1][2]) |->
        [c \in 1..(pw[2][1] + Cols(f) + pw[2][2]) |->
            IF /\ r - pw[1][1] \in 1..Rows(f)
               /\ c - pw[2][1] \in 1..Cols(f)
            THEN f[r - pw[1][1]][c - pw[2][1]]
            ELSE 0]]

\* the crop of the width, the crop of the height, the pad and the final test
CropAndPad ==
    /\ pc = "crop_pad_call"
    /\ LET fa == fn.frame_a
           b1 == IF Cols(fn.frame_b) > Cols(fa)
                 THEN CropColumns(fn.frame_b, (Cols(fn.frame_b) - Cols(fa)) \div 2, Cols(fa))
                 ELSE fn.frame_b
           b2 == IF Rows(b1) > Rows(fa)
                 THEN CropRows(b1, (Rows(b1) - Rows(fa)) \div 2, Rows(fa))
                 ELSE b1
           pads == Rows(b2) < Rows(fa) \/ Cols(b2) < Cols(fa)
           a == PadBefore(Rows(b2), Rows(fa))
           aa == PadAfter(a, Rows(b2), Rows(fa))
           b == PadBefore(Cols(b2), Cols(fa))
           bb == PadAfter(b, Cols(b2), Cols(fa))
           pw == <<<<a, aa>>, <<b, bb>>>>
           b3 == IF pads THEN np_pad(b2, pw) ELSE b2
       IN  /\ fn' = [fn EXCEPT !.cropped = b2, !.padded = pads,
                                !.pad_width = IF pads THEN pw ELSE @,
                                !.frame_b = b3]
           /\ IF pads /\ (a < 0 \/ aa < 0 \/ b < 0 \/ bb < 0)
              THEN pc' = "error" /\ err' = "NegativePad"
              ELSE IF Rows(b3) # Rows(fa) \/ Cols(b3) # Cols(fa)
              THEN pc' = "error" /\ err' = "Images are different sizes."
              ELSE pc' = "crop_pad_return" /\ err' = err
    /\ UNCHANGED <<settings, i, image_mask, frame_b, x, y, u, v, umask, flags, grid_mask,
                   xn, yn, u_pre, v_pre, deformed_by, saves, log, snap, caller>>

NextPrepare == CropAndPad

SpecPrepare == InitPrepare /\ [][NextPrepare]_vars

----------------------------------------------------------------------------
(* deform_windows of windef.py (one map_coordinates call over the frame)    *)
(* and of windef_gpu.py (tile by tile into a preallocated output), for      *)
(* integer displacements at the centres and interpolation order 0 of the   *)
(* frame.  The displacement at a pixel is interpolated between the centres *)
(* and is a fraction: ut, vt hold it in units of 1 / den.  Pixel (row,     *)
(* col) of the code is entry [row + 1][col + 1] of a frame.                *)

MaxDefH == 3
MaxDefW == 2
MaxTile == 3
DefStep == 2
tile_size == 8192

TileSizes == (1..MaxTile) \cup {tile_size}
DispVals == {0 - 1, 0, 1}
PixelBases == {0, 255, 2^24}
Casts == {"wrap", "saturate"}
Unwritten == 0 - 1
\* interpolation_order2: windef.py hands it to RectBivariateSpline (0 and 3
\* raise on the grids here), windef_gpu.py to map_coordinates (0 is the
\* nearest centre, 1 the bilinear value)
FieldOrders == {0, 1, 3}
TileFieldOrders == {0, 1}

Min(a, b) == IF a < b THEN a ELSE b
Clamp(p, n) == IF p < 0 THEN 0 ELSE IF p > n - 1 THEN n - 1 ELSE p

\* frames whose pixels all differ: 8-bit, 16-bit and 32-bit grey levels
Frames(h, w) ==
    {[r \in 1..h |-> [c \in 1..w |-> b + (r - 1) * w + c]] : b \in PixelBases}

\* a coarse grid that covers the frame: 0, step, 2 step, ...
CoarseAxis(dim, step) == [k \in 1..(CeilDiv(dim - 1, step) + 1) |-> (k - 1) * step]

DispFields(shape) ==
    {Full(shape, d) : d \in DispVals}
        \cup {[r \in 1..shape[1] |-> [c \in 1..shape[2] |-> ((r + c) % 3) - 1]]}

\* frame.astype(np.float32): 24 bits of mantissa, ties to even
Float32(n) ==
    IF n <= 2^24 THEN n
    ELSE LET lo == 2 * (n \div 2)
         IN  IF n = lo THEN n
             ELSE IF (lo \div 2) % 2 = 0 THEN lo ELSE lo + 2

ToUint8Exact(val, cast) == val

\* storing a float32 into the uint8 output: out of range the conversion is
\* not defined, it wraps or it saturates
ToUint8(val, cast) ==
    IF val \in 0..255 THEN val
    ELSE IF cast = "wrap" THEN val % 256 ELSE 255

\* the nearest index to a / b as scipy.ndimage takes it: floor(a / b + 0.5)
RoundHalfUp(a, b) == (2 * a + b) \div (2 * b)

\* the nearest index to a / b as cupyx.scipy.ndimage takes it: lrint, a tie
\* goes to the even index
RoundHalfEven(a, b) ==
    LET q == a \div b
        rem == a % b
    IN  IF 2 * rem < b THEN q
        ELSE IF 2 * rem > b THEN q + 1
        ELSE IF q % 2 = 0 THEN q ELSE q + 1

\* map_coordinates(frame, (sy, sx), order=0, mode='nearest') at the index
\* pair (sy, sx): indices outside the frame are moved to its edge
map_nearest(frame, sy, sx) ==
    frame[Clamp(sy, Rows(frame)) + 1][Clamp(sx, Cols(frame)) + 1]

\* f at the index pair (r, c), cval = 0 outside the array
OrZero(f, r, c) ==
    IF r \in 0..(Rows(f) - 1) /\ c \in 0..(Cols(f) - 1) THEN f[r + 1][c + 1] ELSE 0

\* map_coordinates(f, (ny / step, nx / step), order=order, mode='constant',
\* cval=0), times step * step: cval at a point outside the array, else at
\* order 0 f at the nearest index, at order 1 the bilinear value between the
\* four indices around the point
map_constant(f, ny, nx, step, order) ==
    IF ny < 0 \/ ny > step * (Rows(f) - 1) \/ nx < 0 \/ nx > step * (Cols(f) - 1)
    THEN 0
    ELSE IF order = 0
    THEN step * step * OrZero(f, RoundHalfEven(ny, step), RoundHalfEven(nx, step))
    ELSE LET r == ny \div step
             c == nx \div step
             by == ny % step
             bx == nx % step
         IN  (step - by) * (step - bx) * OrZero(f, r, c)
                 + (step - by) * bx * OrZero(f, r, c + 1)
                 + by * (step - bx) * OrZero(f, r + 1, c)
                 + by * bx * OrZero(f, r + 1, c + 1)

DeformCallsFor(h, w) ==
    LET ys == CoarseAxis(h, DefStep)
        xs == CoarseAxis(w, DefStep)
        args(im, f, uu, vv, k, t, ca) ==
            [name |-> "deform", impl |-> im, frame |-> f,
             x |-> MeshX(xs, ys), y |-> MeshY(xs, ys), u |-> uu, v |-> vv,
             interpolation_order |-> 0, interpolation_order2 |-> k,
             step |-> DefStep, tile_size |-> t, cast |-> ca,
             frame32 |-> Empty, frame_def |-> Empty, ut |-> Empty, vt |-> Empty,
             den |-> DefStep * DefStep,
             writes |-> Empty, y_start |-> 0, x_start |-> 0]
    IN  {args("cpu", f, uu, vv, k, 0, "") :
            f \in Frames(h, w), uu \in DispFields(<<Len(ys), Len(xs)>>),
            vv \in DispFields(<<Len(ys), Len(xs)>>), k \in FieldOrders}
        \cup
        {args("gpu", f, uu, vv, k, t, ca) :
            f \in Frames(h, w), uu \in DispFields(<<Len(ys), Len(xs)>>),
            vv \in DispFields(<<Len(ys), Len(xs)>>), k \in TileFieldOrders,
            t \in TileSizes, ca \in Casts}

InitDeform ==
    /\ \E h \in 1..MaxDefH, w \in 1..MaxDefW : fn \in DeformCallsFor(h, w)
    /\ pc = "deform_call"
    /\ NoRun

cast_frame(f) == [r \in 1..Rows(f) |-> [c \in 1..Cols(f) |-> Float32(f[r][c])]]

\* windef.py: create_deformation_field, then one map_coordinates call at
\* (y - vt, x + ut)
DeformWhole ==
    /\ pc = "deform_call" /\ fn.impl = "cpu"
    /\ LET frame == cast_frame(fn.frame)
           y1 == FirstColumn(fn.y)
           x1 == FirstRow(fn.x)
           side_y == [k \in 1..Rows(frame) |-> k - 1]
           side_x == [k \in 1..Cols(frame) |-> k - 1]
           den == SplineDen(y1, x1)
           ut == Resample(y1, x1, fn.u, side_y, side_x)
           vt == Resample(y1, x1, fn.v, side_y, side_x)
       IN  IF SplineRaises(fn.interpolation_order2, y1, x1)
           THEN /\ fn' = [fn EXCEPT !.frame32 = frame]
                /\ pc' = "error" /\ err' = "SplineError"
           ELSE /\ fn' = [fn EXCEPT
                         !.frame32 = frame, !.ut = ut, !.vt = vt, !.den = den,
                         !.writes = Full(Shape(frame), 1),
                         !.frame_def =
                             [r \in 1..Rows(frame) |-> [c \in 1..Cols(frame) |->
                                 map_nearest(frame,
                                     RoundHalfUp((r - 1) * den - vt[r][c], den),
                                     RoundHalfUp((c - 1) * den + ut[r][c], den))]]]
                /\ pc' = "deform_return" /\ err' = err
    /\ UNCHANGED <<settings, i, image_mask, frame_b, x, y, u, v, umask, flags, grid_mask,
                   xn, yn, u_pre, v_pre, deformed_by, saves, log, snap, caller>>

\* windef_gpu.py: the cast, the output buffer, the first tile's origin
DeformEnter ==
    /\ pc = "deform_call" /\ fn.impl = "gpu"
    /\ fn' = [fn EXCEPT
                 !.frame32 = cast_frame(fn.frame),
                 !.frame_def = Full(Shape(fn.frame), Unwritten),
                 !.ut = Full(Shape(fn.frame), 0), !.vt = Full(Shape(fn.frame), 0),
                 !.writes = Full(Shape(fn.frame), 0),
                 !.y_start = 0, !.x_start = 0]
    /\ pc' = "deform_tile"
    /\ UNCHANGED run_vars

TileEndOpen(start, size, dim) == start + size - 1

\* y_end = min(y_start + tile_size, H)
TileEnd(start, size, dim) == Min(start + size, dim)

\* one round of the inner loop: the tile at (y_start, x_start)
DeformTile ==
    /\ pc = "deform_tile"
    /\ LET H == Rows(fn.frame32)
           W == Cols(fn.frame32)
           y_end == TileEnd(fn.y_start, fn.tile_size, H)
           x_end == TileEnd(fn.x_start, fn.tile_size, W)
           y0 == fn.y[1][1]
           x0 == fn.x[1][1]
           in_tile(r, c) == /\ r - 1 >= fn.y_start /\ r - 1 < y_end
                            /\ c - 1 >= fn.x_start /\ c - 1 < x_end
           ut_tile(r, c) == map_constant(fn.u, (r - 1) - y0, (c - 1) - x0, fn.step,
                                         fn.interpolation_order2)
           vt_tile(r, c) == map_constant(fn.v, (r - 1) - y0, (c - 1) - x0, fn.step,
                                         fn.interpolation_order2)
           ut_all == [r \in 1..H |-> [c \in 1..W |->
                        IF in_tile(r, c) THEN ut_tile(r, c) ELSE fn.ut[r][c]]]
           vt_all == [r \in 1..H |-> [c \in 1..W |->
                        IF in_tile(r, c) THEN vt_tile(r, c) ELSE fn.vt[r][c]]]
           next_x == fn.x_start + fn.tile_size
           next_y == fn.y_start + fn.tile_size
       IN  /\ fn' = [fn EXCEPT
                      !.ut = ut_all,
                      !.vt = vt_all,
                      !.frame_def = [r \in 1..H |-> [c \in 1..W |->
                                IF in_tile(r, c)
                                THEN ToUint8(map_nearest(fn.frame32,
                                        RoundHalfEven((r - 1) * fn.den - vt_all[r][c], fn.den),
                                        RoundHalfEven((c - 1) * fn.den + ut_all[r][c], fn.den)),
                                             fn.cast)
                                ELSE fn.frame_def[r][c]]],
                      !.writes = [r \in 1..H |-> [c \in 1..W |->
                                IF in_tile(r, c) THEN fn.writes[r][c] + 1
                                ELSE fn.writes[r][c]]],
                      !.x_start = IF next_x < W THEN next_x ELSE 0,
                      !.y_start = IF next_x < W THEN fn.y_start ELSE next_y]
           /\ pc' = IF next_x < W \/ next_y < H THEN "deform_tile" ELSE "deform_return"
    /\ UNCHANGED run_vars

NextDeform ==
    \/ DeformWhole
    \/ DeformEnter
    \/ DeformTile

SpecDeform == InitDeform /\ [][NextDeform]_vars

----------------------------------------------------------------------------
(* Properties *)

NumIter == settings.num_iterations
Has(step, pass) == \E k \in 1..Len(log) : log[k] = <<step, pass>>
Pos(step, pass) == CHOOSE k \in 1..Len(log) : log[k] = <<step, pass>>
Before(s1, p1, s2, p2) == Has(s1, p1) /\ Has(s2, p2) /\ Pos(s1, p1) < Pos(s2, p2)
PassOver == snap.pass >= 0 /\ snap.returned # Empty
At(f, c) == f[c[1]][c[2]]
Mirror(f, c) == f[Rows(f) + 1 - c[1]][c[2]]

\* C1: a run that no validation error (and no rejected configuration or
\* correlation failure) ends finishes with exactly one call of tools.save,
\* for every num_iterations >= 1.
C1_RunEndsInOneSave ==
    /\ pc = "error" =>
           err \in {"ValidationError", "InvalidParameter", "IndexError", "CorrelationFailure"}
    /\ pc = "done" => Len(saves) = 1

\* C2 as stated: outlier repair is never invoked on the final pass, whatever
\* num_iterations and the settings are.
C2_NoRepairOnFinalPass == ~Has("repair", NumIter - 1)

\* C2 amended: with two or more passes the final pass is never repaired; a
\* single-pass run repairs its only pass exactly when replace_vectors is set.
C2_RepairOnFinalPassOnlyOnRequest ==
    /\ NumIter >= 2 => ~Has("repair", NumIter - 1)
    /\ (NumIter = 1 /\ pc \in {"loop", "complete", "fill", "final_mask", "save", "done"})
           => (Has("repair", 0) <=> settings.replace_vectors)

C2_Witness ==
    /\ pc = "done" /\ NumIter >= 2 /\ settings.replace_vectors
    /\ Has("validate", NumIter - 1)
    /\ FlaggedCells(flags) # {}

\* C3: with two or more passes, every pass but the last has its field
\* repaired after its correlation and validation and before the next pass
\* resamples it, whatever validation_first_pass and replace_vectors are.
C3_IntermediatePassesRepaired ==
    /\ \A p \in 0..(NumIter - 2) :
           Has("resample", p + 1) =>
               /\ Before("correlate", p, "repair", p)
               /\ Before("repair", p, "resample", p + 1)
               /\ Has("validate", p) => Before("validate", p, "repair", p)
    /\ (PassOver /\ snap.pass + 1 < NumIter) => (snap.repaired /\ Has("repair", snap.pass))

C3_Witness ==
    /\ NumIter = 3 /\ Has("resample", 2)
    /\ ~settings.validation_first_pass /\ ~settings.replace_vectors

\* C4: when the validation of a pass, the first included, flags every cell,
\* the run is in error at once: nothing of that pair runs afterwards.
C4_AllFlaggedRaises ==
    (snap.pass >= 0 /\ AllFlagged(snap.flags)) => pc = "error"

\* C5 as stated: for num_iterations >= 2 the exported flags are the last
\* validation's flags and every cell it flagged is exported with the value
\* that validation saw (in the export orientation: rows flipped, negated).
C5_FinalFlagsAndValuesRaw ==
    (pc = "done" /\ NumIter >= 2) =>
        /\ saves[1].flags = snap.flags
        /\ \A c \in FlaggedCells(snap.flags) :
               /\ Mirror(saves[1].u, c) = Neg(At(snap.u, c))
               /\ Mirror(saves[1].v, c) = Neg(At(snap.v, c))

\* C5 amended: the exported flags are the last validation's flags; a flagged
\* cell outside the last pass's grid mask is exported with the value that
\* validation saw, a flagged cell inside the grid mask is exported as zero.
C5_FinalFlagsAndUnmaskedValuesRaw ==
    (pc = "done" /\ NumIter >= 2) =>
        /\ saves[1].flags = snap.flags
        /\ \A c \in FlaggedCells(snap.flags) :
               IF At(snap.umask, c)
               THEN Mirror(saves[1].u, c) = 0 /\ Mirror(saves[1].v, c) = 0
               ELSE /\ Mirror(saves[1].u, c) = Neg(At(snap.u, c))
                    /\ Mirror(saves[1].v, c) = Neg(At(snap.v, c))

C5_Witness ==
    /\ pc = "done" /\ NumIter >= 2 /\ settings.smoothn
    /\ \E c \in FlaggedCells(snap.flags) :
           /\ ~At(snap.umask, c)
           /\ At(snap.u, c) \notin {0, NaN}
           /\ Mirror(saves[1].u, c) = 0 - At(snap.u, c)

\* C6: smoothing is never applied to the output of the last pass, for every
\* num_iterations >= 1.
C6_NoSmoothOnLastPass == ~Has("smooth", NumIter - 1)

\* C7: every cell of the exported grid whose window centre is a masked pixel
\* of the image mask is TRUE in the exported grid mask, in both variants.
C7_MaskedCentresInGridMask ==
    (pc = "done" /\ settings.static_mask # NoneMask) =>
        \A c \in Cells(saves[1].mask) :
            settings.static_mask[At(saves[1].y, c) + 1][At(saves[1].x, c) + 1]
                => At(saves[1].mask, c)

\* C8: a configuration that is rejected is rejected before any correlation
\* has run.
C8_RejectedBeforeAnyPass ==
    err \in {"InvalidParameter", "IndexError"} =>
        \A k \in 1..Len(log) : log[k][1] # "correlate"

\* C9: a correlation failure on a window never aborts the pass.
C9_CorrelationFailureAbsorbed == err # "CorrelationFailure"

\* C10: the flags a pass returns still mark every cell its repair left
\* unresolved.
C10_UnresolvedStayFlagged ==
    PassOver => \A c \in snap.unresolved : At(snap.returned, c)

\* C11: in the padded variant the slices [y_add[0]:-y_add[1],
\* x_add[0]:-x_add[1]] of the padded predictor and of the padded grid have
\* exactly the residual field's shape, for every valid frame size, window
\* size and overlap: the slice of the predictor once it is taken, those of
\* the grid at the return.
C11_PaddedSliceHasFieldShape ==
    /\ pc \in {"pad_return", "error"} => Shape(fn.u_pre_cut) = fn.shapes
    /\ pc = "pad_return" =>
           /\ Shape(fn.x_ret) = fn.shapes
           /\ Shape(fn.y_ret) = fn.shapes

\* C12 as stated: in the exported field every cell that the exported grid
\* mask marks or the exported flags mark invalid has u = 0 and v = 0.
C12_MaskedAndFlaggedExportedZero ==
    pc = "done" =>
        \A c \in Cells(saves[1].flags) :
            (At(saves[1].mask, c) \/ At(saves[1].flags, c)) =>
                Mirror(saves[1].u, c) = 0 /\ Mirror(saves[1].v, c) = 0

\* C12 amended: every cell that the last pass masked (the static mask on its
\* grid) is exported with u = 0 and v = 0; being flagged invalid zeroes
\* nothing.
C12_MaskedExportedZero ==
    pc = "done" =>
        \A c \in Cells(snap.umask) :
            At(snap.umask, c) =>
                Mirror(saves[1].u, c) = 0 /\ Mirror(saves[1].v, c) = 0

C12_Witness ==
    /\ pc = "done"
    /\ \E c \in Cells(snap.umask) :
           /\ At(snap.umask, c)
           /\ At(snap.u, c) \notin {0, NaN}
           /\ Mirror(saves[1].u, c) = 0
    /\ \E c \in FlaggedCells(saves[1].flags) :
           ~At(snap.umask, c) /\ Mirror(saves[1].u, c) # 0

\* C13: the exported displacement is the field multipass holds at the end,
\* rows in reverse order and both components negated: with R rows,
\* u_out[r][c] = -u[R-1-r][c] and v_out[r][c] = -v[R-1-r][c] (rows from 0).
C13_ExportFlippedAndNegated ==
    pc = "done" =>
        /\ Shape(saves[1].u) = Shape(u) /\ Shape(saves[1].v) = Shape(v)
        /\ \A r \in 1..Rows(u) : \A c \in 1..Cols(u) :
               /\ saves[1].u[r][c] = Neg(u[Rows(u) + 1 - r][c])
               /\ saves[1].v[r][c] = Neg(v[Rows(v) + 1 - r][c])

C13_Witness ==
    /\ pc = "done"
    /\ Rows(u) >= 2
    /\ u[1][1] \notin {0, NaN} /\ u[Rows(u)][1] = 0
    /\ saves[1].u[Rows(u)][1] = 0 - u[1][1]
    /\ saves[1].v[Rows(u)][1] = 0 - v[1][1]

ZeroField(f) == \A c \in Cells(f) : At(f, c) = 0

\* C14: deforming a frame of 8-bit or wider samples by an all-zero field at
\* interpolation order 0 returns a frame of the same shape with every pixel
\* equal to the input pixel, in windef.py and in windef_gpu.py.
C14_ZeroFieldIsIdentity ==
    (pc = "deform_return" /\ ZeroField(fn.u) /\ ZeroField(fn.v)) =>
        /\ Shape(fn.frame_def) = Shape(fn.frame)
        /\ \A c \in Cells(fn.frame) : At(fn.frame_def, c) = At(fn.frame, c)

\* what a single tile covering the whole frame writes at pixel c
OneTile(c) ==
    LET ny == (c[1] - 1) - fn.y[1][1]
        nx == (c[2] - 1) - fn.x[1][1]
        k == fn.interpolation_order2
    IN  ToUint8(map_nearest(cast_frame(fn.frame),
                    RoundHalfEven((c[1] - 1) * fn.den - map_constant(fn.v, ny, nx, fn.step, k),
                                  fn.den),
                    RoundHalfEven((c[2] - 1) * fn.den + map_constant(fn.u, ny, nx, fn.step, k),
                                  fn.den)),
                fn.cast)

\* C15: for every H, W and tile size T >= 1 the tiles of windef_gpu.py's
\* deform_windows write every output pixel exactly once, and the output is
\* what one tile covering the whole frame writes, whatever T is.
C15_TilesPartitionFrame ==
    (pc = "deform_return" /\ fn.impl = "gpu") =>
        \A c \in Cells(fn.frame) :
            /\ At(fn.writes, c) = 1
            /\ At(fn.frame_def, c) = OneTile(c)

C15_Witness ==
    /\ pc = "deform_return" /\ fn.impl = "gpu"
    /\ fn.tile_size < Rows(fn.frame) /\ Rows(fn.frame) % fn.tile_size # 0
    /\ ~ZeroField(fn.v) /\ fn.v[1][1] # fn.v[2][1]
    /\ \A c \in Cells(fn.frame) : At(fn.writes, c) = 1
    /\ \E c \in Cells(fn.frame) : At(fn.frame_def, c) # At(fn.frame, c)

\* the pixel index nearest to a / b, as the deformer at hand rounds
NearestIndex(a, b) ==
    IF fn.impl = "cpu" THEN RoundHalfUp(a, b) ELSE RoundHalfEven(a, b)

\* C20: deform_windows returns a frame of the input's shape whose pixel
\* (row, col) is the input's value at (row - v(row, col), col + u(row, col))
\* of the per-pixel field (at the pixel nearest to that point), a source
\* coordinate outside the frame taken at the nearest edge pixel (integer
\* displacements at the centres, interpolation order 0).
C20_PixelTakenFromDisplacedSource ==
    pc = "deform_return" =>
        /\ Shape(fn.frame_def) = Shape(fn.frame)
        /\ \A c \in Cells(fn.frame) :
               At(fn.frame_def, c) =
                   fn.frame[Clamp(NearestIndex((c[1] - 1) * fn.den - At(fn.vt, c), fn.den),
                                  Rows(fn.frame)) + 1]
                           [Clamp(NearestIndex((c[2] - 1) * fn.den + At(fn.ut, c), fn.den),
                                  Cols(fn.frame)) + 1]

\* C16: a run on one pair leaves the caller's settings as they were handed
\* over, so the first pass of every later pair is given the signal-to-noise
\* method the first pass of the first pair was given.
C16_SettingsUnchangedByRun ==
    /\ pc = "done" => settings = caller.given
    /\ \A k \in 1..Len(caller.first_s2n) : caller.first_s2n[k] = caller.first_s2n[1]

\* C17: once the caller has asked to cancel during pass p, pass p + 1 builds
\* no grid, resamples, deforms and correlates nothing.
C17_CancelStopsNextPass ==
    caller.cancel >= 0 =>
        \A step \in {"grid", "resample", "deform", "correlate"} :
            ~Has(step, caller.cancel + 1)

\* C18: for every pair of frame shapes the crop and pad of prepare_images
\* leave frame_b with frame_a's shape and never raise; where it pads, the
\* amounts before and after are non-negative and add up to what frame_b
\* lacks on that axis after the crop.
C18_CropPadMatchesShapes ==
    /\ fn.name = "prepare_images" => err = ""
    /\ pc = "crop_pad_return" =>
           /\ Shape(fn.frame_b) = Shape(fn.frame_a)
           /\ fn.padded =>
                  /\ \A ax \in 1..2 : \A k \in 1..2 : fn.pad_width[ax][k] >= 0
                  /\ fn.pad_width[1][1] + fn.pad_width[1][2]
                         = Rows(fn.frame_a) - Rows(fn.cropped)
                  /\ fn.pad_width[2][1] + fn.pad_width[2][2]
                         = Cols(fn.frame_a) - Cols(fn.cropped)

\* the height is cropped, the width is padded by an odd amount
C18_Witness ==
    /\ pc = "crop_pad_return"
    /\ Rows(fn.cropped) = Rows(fn.frame_a)
    /\ \E c \in Cells(fn.cropped) : At(fn.cropped, c) > Rows(fn.frame_a) * Cols(fn.cropped)
    /\ fn.padded
    /\ fn.pad_width[1] = <<0, 0>>
    /\ fn.pad_width[2][1] # fn.pad_width[2][2]
    /\ Shape(fn.frame_b) = Shape(fn.frame_a)

\* the previous pass's output with its masked cells taken as 0
PreviousOutput(f) ==
    [r \in 1..Rows(f) |-> [c \in 1..Cols(f) |-> IF umask[r][c] THEN 0 ELSE f[r][c]]]

\* the old centres on either side of the point p on one axis: the last one
\* at or before p and the first one at or after p; the end centre on both
\* sides where p lies outside the centres
Below(old, p) ==
    IF p <= old[1] THEN 1
    ELSE CHOOSE j \in 1..Len(old) : old[j] <= p /\ (j = Len(old) \/ old[j + 1] > p)
Above(old, p) ==
    IF p >= old[Len(old)] THEN Len(old)
    ELSE CHOOSE j \in 1..Len(old) : old[j] >= p /\ (j = 1 \/ old[j - 1] < p)

\* the distance between the centre b before p and the centre a after p, and
\* the shares of it that count for b and for a (all of it for b where b is
\* on both sides)
Gap(old, b, a) == IF b = a THEN 1 ELSE old[a] - old[b]
ShareBelow(old, b, a, p) == IF b = a THEN 1 ELSE old[a] - p
ShareAbove(old, b, a, p) == IF b = a THEN 0 ELSE p - old[b]

\* what an old cell adds to a value: nothing where its share is 0
Part(prev, r, c, share) ==
    IF share = 0 THEN 0
    ELSE IF prev[r][c] = NaN THEN NaN ELSE share * prev[r][c]

\* pre is prev, given at the centres (y, x), resampled at the centres
\* (yn, xn): a value of pre that is a number is the mean of the old cells
\* around its centre, each counted by how near it is, and needs those cells
\* to be numbers; beyond the old centres the nearest ones count; where prev
\* is numbers all over, so is pre
ResampledOnto(prev, pre) ==
    LET y_old == [r \in 1..Rows(y) |-> y[r][1]]
        x_old == x[1]
    IN  /\ Shape(pre) = Shape(xn)
        /\ \A r \in 1..Rows(pre) :
               LET p == yn[r][1]
                   rb == Below(y_old, p)
                   ra == Above(y_old, p)
                   sb == ShareBelow(y_old, rb, ra, p)
                   sa == ShareAbove(y_old, rb, ra, p)
               IN  \A c \in 1..Cols(pre) :
                       LET q == xn[1][c]
                           cb == Below(x_old, q)
                           ca == Above(x_old, q)
                           tb == ShareBelow(x_old, cb, ca, q)
                           ta == ShareAbove(x_old, cb, ca, q)
                           parts == << Part(prev, rb, cb, sb * tb),
                                       Part(prev, rb, ca, sb * ta),
                                       Part(prev, ra, cb, sa * tb),
                                       Part(prev, ra, ca, sa * ta) >>
                       IN  /\ yn[r][c] = p /\ xn[r][c] = q
                           /\ pre[r][c] # NaN =>
                                  /\ \A k \in 1..4 : parts[k] # NaN
                                  /\ Gap(y_old, rb, ra) * Gap(x_old, cb, ca) * pre[r][c]
                                         = parts[1] + parts[2] + parts[3] + parts[4]
        /\ (\A c \in Cells(prev) : prev[c[1]][c[2]] # NaN) =>
               \A d \in Cells(pre) : pre[d[1]][d[2]] # NaN

\* the centres of the grid the current pass correlates on, along each axis
PassCentresY == Centres(FrameH, window_size, overlap)
PassCentresX == Centres(FrameW, window_size, overlap)

\* the cells of the predictor that lie at the centre of cell c of the pass
\* (yn is the same along a row and xn along a column)
AtCentre(c) ==
    LET py == PassCentresY[c[1]]
        px == PassCentresX[c[2]]
    IN  {r \in 1..Rows(yn) : yn[r][1] = py} \X {k \in 1..Cols(xn) : xn[1][k] = px}

\* frame B as prepare_images returned it, deformed once: by (u_pre, -v_pre)
\* given at the centres (yn, xn)
OriginalDeformedByPredictor(frame) ==
    /\ frame.image = "file_b"
    /\ Len(frame.warps) = 1
    /\ frame.warps[1].x = xn /\ frame.warps[1].y = yn
    /\ frame.warps[1].u = u_pre
    /\ Shape(frame.warps[1].v) = Shape(v_pre)
    /\ \A d \in Cells(v_pre) :
           IF v_pre[d[1]][d[2]] = NaN THEN frame.warps[1].v[d[1]][d[2]] = NaN
           ELSE frame.warps[1].v[d[1]][d[2]] + v_pre[d[1]][d[2]] = 0

\* C19: in every iteration i >= 1 the predictor (u_pre, v_pre) is the
\* previous pass's output, its masked cells taken as 0, resampled onto the
\* new grid (wherever the spline gives a number); the frame that is deformed
\* is frame B as prepare_images returned it, never a frame that has been
\* deformed before, it is deformed by (u_pre, -v_pre) and the result is what
\* is correlated; and before masking and validation, at every cell of the
\* grid, u = u_residual + u_pre and v = v_residual + v_pre with
\* (u_residual, v_residual) a result of that correlation and (u_pre, v_pre)
\* taken at the centre of the cell.
C19_ResidualPlusPredictor ==
    /\ pc = "mp_deform" =>
           /\ ResampledOnto(PreviousOutput(u), u_pre)
           /\ ResampledOnto(PreviousOutput(v), v_pre)
    /\ pc \in {"mp_correlate", "mp_accumulate", "mp_mask"} =>
           /\ frame_b = [image |-> "file_b", warps |-> <<>>]
           /\ deformed_by.frame = frame_b
           /\ OriginalDeformedByPredictor(deformed_by.result)
    /\ pc \in {"mp_accumulate", "mp_mask"} =>
           deformed_by.correlated = deformed_by.result
    /\ pc = "mp_mask" =>
           \A c \in Cells(u) :
               /\ Cardinality(AtCentre(c)) = 1
               /\ \A d \in AtCentre(c) : \E res \in Residuals :
                      /\ At(u, c) = Add(res[1] * Unit, At(u_pre, d))
                      /\ At(v, c) = Add(res[2] * Unit, At(v_pre, d))

\* the third pass of a run, on a grid that is not the grid of the second:
\* a predictor value between whole pixels, a residual of (1, 2) pixels on
\* top of it, and a cell whose predictor and residual are both 0
C19_Witness ==
    /\ pc = "mp_mask" /\ i = 2
    /\ Shape(x) # Shape(u)
    /\ Len(deformed_by.correlated.warps) = 1
    /\ \E c \in Cells(u) : \E d \in AtCentre(c) :
           /\ At(u_pre, d) # NaN
           /\ At(u_pre, d) % Unit # 0
           /\ At(u, c) = At(u_pre, d) + Unit
           /\ At(v, c) = At(v_pre, d) + 2 * Unit
    /\ \E c \in Cells(u) : \E d \in AtCentre(c) : At(u_pre, d) = 0 /\ At(u, c) = 0

\* the correlation calls made so far are those of passes 0, 1, 2, ... in
\* this order, one each, with the window size and overlap scheduled for the
\* pass; only pass 0 is given a search area, its own window size; after the
\* last pass there have been num_iterations calls
CorrelationsInSchedule ==
    /\ \A k \in 1..Len(caller.correlations) :
           LET call == caller.correlations[k]
           IN  /\ call.pass = k - 1
               /\ k <= NumIter
               /\ call.window_size = settings.windowsizes[k]
               /\ call.overlap = settings.overlap[k]
               /\ call.search_area_size = IF k = 1 THEN settings.windowsizes[1] ELSE 0
    /\ pc \in {"complete", "fill", "final_mask", "save", "done"} =>
           Len(caller.correlations) = NumIter
    /\ pc \in IterationLabels => Len(caller.correlations) \in {i, i + 1}

\* from the end of a pass to the resampling of the next one nothing touches
\* x, y, u, v
HandedOver ==
    pc \in {"loop", "mp_grid", "mp_resample"} => UNCHANGED <<x, y, u, v>>

\* C21: passes run in index order, each once; pass 0 correlates at
\* windowsizes[0] / overlap[0] with that window as search area, pass i >= 1
\* at windowsizes[i] / overlap[i] without a search area and from exactly the
\* (x, y, u, v) pass i-1 left; a pair that reaches the end has had
\* num_iterations correlation calls.
C21_PassesInScheduleOrder == [][CorrelationsInSchedule' /\ HandedOver]_vars

C21_Witness ==
    /\ pc = "done" /\ NumIter = 3
    /\ Len(caller.correlations) = 3
    /\ caller.correlations[3] = Correlation(2, settings.windowsizes[3], settings.overlap[3], 0)
    /\ settings.windowsizes[1] # settings.windowsizes[3]
    /\ Before("correlate", 0, "correlate", 1) /\ Before("correlate", 1, "correlate", 2)

StepsFirst == <<"correlate", "smooth", "validate", "repair">>
StepsIteration ==
    <<"grid", "resample", "deform", "correlate", "accumulate", "mask",
      "validate", "repair", "smooth">>
IndexIn(seq, e) == CHOOSE k \in 1..Len(seq) : seq[k] = e

\* the place of a history entry within its pass; the zero-filling and the
\* save come after every step of the last pass
Rank(entry) ==
    LET step == IF entry[1] = "noflags" THEN "validate" ELSE entry[1]
    IN  IF step = "fill" THEN Len(StepsIteration) + 1
        ELSE IF step = "save" THEN Len(StepsIteration) + 2
        ELSE IF entry[2] = 0 THEN IndexIn(StepsFirst, step)
        ELSE IndexIn(StepsIteration, step)

Precedes(e1, e2) == e1[2] < e2[2] \/ (e1[2] = e2[2] /\ Rank(e1) < Rank(e2))

\* C22: the steps of the first pass run in the order correlate, smooth (if
\* enabled), validate, repair; those of an iteration in the order grid,
\* resample, deform, correlate, accumulate, mask, validate, repair (not on
\* the last pass), smooth (enabled, not on the last pass); no step is
\* skipped or repeated, a pass starts only after the previous one's last
\* step, and validation sees the accumulated, masked field of its own pass.
\* (The history grows by one entry per step, so the order of the whole
\* history is the order of its last two entries in every state, and the
\* steps a step needs are looked for when that step is the latest entry.)
C22_StepsInOrder ==
    /\ Len(log) >= 2 => Precedes(log[Len(log) - 1], log[Len(log)])
    /\ (log # <<>> /\ log[Len(log)][2] > 0) =>
           LET step == log[Len(log)][1]
               p == log[Len(log)][2]
           IN  /\ step = "validate" =>
                      \A k \in 1..6 : Has(StepsIteration[k], p)
               /\ step = "repair" => Has("validate", p) /\ p + 1 # NumIter
               /\ step = "smooth" => Has("repair", p) /\ settings.smoothn
               /\ step = "grid" =>
                      /\ Has("correlate", 0) /\ Has("repair", p - 1)
                      /\ Has("validate", p - 1) \/ Has("noflags", p - 1)
                      /\ settings.smoothn => Has("smooth", p - 1)
    /\ pc = "mp_repair" =>
           /\ snap.pass = i /\ snap.u = u /\ snap.v = v
           /\ snap.umask = (IF settings.impl = "cpu" THEN PassGridMask ELSE umask)
           /\ \A c \in Cells(u) : \E res \in Residuals :
                  /\ At(snap.u, c) = Add(res[1] * Unit, At(Predictor(u_pre), c))
                  /\ At(snap.v, c) = Add(res[2] * Unit, At(Predictor(v_pre), c))

C22_Witness ==
    /\ pc = "done" /\ NumIter = 3 /\ settings.smoothn
    /\ settings.validation_first_pass
    /\ Has("smooth", 0) /\ Has("smooth", 1) /\ ~Has("smooth", 2)
    /\ Before("smooth", 0, "validate", 0) /\ Before("repair", 0, "grid", 1)
    /\ Before("repair", 1, "smooth", 1) /\ Before("smooth", 1, "grid", 2)
    /\ Before("mask", 2, "validate", 2) /\ Has("save", 2)

\* C23: in the padded variant, for every frame dimension D, window size w
\* and overlap o with 0 <= o < w <= D, the padded coordinate vector of an
\* axis is evenly spaced by w - o, starts at or before 0, ends at or after
\* D - 1, and holds the unpadded centres as the contiguous run that begins at
\* index add[0].  (Coordinates in half pixels: 0 is 0, D - 1 is 2 (D - 1).)
C23_PaddedAxisCoversFrame ==
    pc = "axis_return" =>
        LET p == fn.padded
            c == fn.c_int
            step == 2 * (fn.window_size - fn.overlap)
        IN  /\ fn.add[1] >= 0 /\ fn.add[2] >= 0
            /\ Len(p) = fn.add[1] + Len(c) + fn.add[2]
            /\ \A k \in 1..(Len(p) - 1) : p[k + 1] - p[k] = step
            /\ p[1] <= 0
            /\ p[Len(p)] >= 2 * (fn.dim - 1)
            /\ \A j \in 1..Len(c) : p[fn.add[1] + j] = c[j]

C23_Witness ==
    /\ pc = "axis_return"
    /\ fn.window_size % 2 = 1 /\ fn.overlap > 0
    /\ fn.add[1] >= 1 /\ fn.add[2] >= 1
    /\ Len(fn.c_int) >= 2
    /\ fn.padded[1] < 0 /\ fn.padded[Len(fn.padded)] > 2 * (fn.dim - 1)

\* C24: in the exported tuple, index (r, c) of u and v is the same
\* interrogation window as index (r, c) of x, y, the flags and the grid
\* mask: x, y, flags and mask leave in the order multipass holds them, so u
\* and v at (r, c) are the (sign-reversed) vector of window (r, c), and a
\* cell the exported mask marks holds the zero its window was filled with.
C24_ExportedFieldsAligned ==
    pc = "done" =>
        \A c \in Cells(u) :
            /\ At(saves[1].x, c) = At(x, c) /\ At(saves[1].y, c) = At(y, c)
            /\ At(saves[1].flags, c) = At(flags, c)
            /\ At(saves[1].mask, c) = At(grid_mask, c)
            /\ At(saves[1].u, c) = Neg(At(u, c))
            /\ At(saves[1].v, c) = Neg(At(v, c))
            /\ At(saves[1].mask, c) =>
                   At(saves[1].u, c) = 0 /\ At(saves[1].v, c) = 0

====
